---- MODULE Spec2Model ----
(***************************************************************************)
(* Model of process_google_takeout.py: the Google Photos Takeout metadata  *)
(* processor.  Two specifications are defined over one set of variables:   *)
(*   Spec      - a whole run of main() over a source tree;                 *)
(*   FuncSpec  - extract_metadata followed by build_exiftool_command on    *)
(*               one sidecar drawn from a bounded set of JSON documents.   *)
(***************************************************************************)
EXTENDS Integers, Sequences, FiniteSets, TLC

(***************************************************************************)
(* Bounds                                                                  *)
(***************************************************************************)
\* number of candidate paths under the source root
MaxFiles == 3
\* coordinates and altitudes of a geo block range over -MaxCoord..MaxCoord
MaxCoord == 1

None == "None"

(***************************************************************************)
(* Paths.  A path relative to a root is an index; its extension is taken   *)
(* from a fixed cycle so that photo, video, non-media and "video but not   *)
(* .mp4/.mov" files all occur.  Path order is index order.                 *)
(***************************************************************************)
Paths == 1..MaxFiles

Extensions == <<".jpg", ".MP4", ".txt", ".mkv">>

suffix(p) == Extensions[((p - 1) % Len(Extensions)) + 1]

\* str.lower() on the extensions that occur
lower(ext) == IF ext = ".MP4" THEN ".mp4" ELSE ext

MEDIA_EXTENSIONS == {".jpg", ".jpeg", ".png", ".webp", ".heic", ".heif", ".bmp",
    ".tiff", ".gif", ".avif", ".jxl", ".jfif", ".raw", ".cr2", ".nef", ".orf",
    ".sr2", ".arw", ".dng", ".pef", ".raf", ".rw2", ".srw", ".3fr", ".erf",
    ".k25", ".kdc", ".mef", ".mos", ".mrw", ".nrw", ".srf", ".x3f", ".mp4",
    ".mov", ".mkv", ".avi", ".webm", ".3gp", ".m4v", ".mpg", ".mpeg", ".mts",
    ".m2ts", ".ts", ".flv", ".f4v", ".wmv", ".asf", ".rm", ".rmvb", ".vob",
    ".ogv", ".mxf", ".dv", ".divx", ".xvid"}

JSON_PATTERNS == <<".supplemental-metadata.json",
                   ".supplemental-metada.json",
                   ".supplemental-me.json">>

PatternSet == {JSON_PATTERNS[k] : k \in 1..Len(JSON_PATTERNS)}

(***************************************************************************)
(* Python dictionaries are functions whose DOMAIN is the set of keys.      *)
(***************************************************************************)
EmptyDict == <<>>

Put(d, k, v) == (k :> v) @@ d

\* dict.get(key, default)
Get(d, k, default) == IF k \in DOMAIN d THEN d[k] ELSE default

(***************************************************************************)
(* JSON sidecar documents.  A geo field is absent, null or an object; the  *)
(* numbers of a geo block are integers; texts are sequences of characters. *)
(***************************************************************************)
JsonNull == [type |-> "null"]

JsonObject(members) == [type |-> "object", members |-> members]

GeoVals == (-MaxCoord)..MaxCoord

GeoKeys == {"latitude", "longitude", "altitude"}

GeoBlocks == UNION {[K -> GeoVals] : K \in SUBSET GeoKeys}

GeoFields == {JsonNull} \cup {JsonObject(b) : b \in GeoBlocks}

\* "1609459200", "86399" and a text that is not a number
TimestampTexts == {<<"1", "6", "0", "9", "4", "5", "9", "2", "0", "0">>,
                   <<"8", "6", "3", "9", "9">>,
                   <<"1", "2", "x">>}

PhotoTakenTimes == {EmptyDict} \cup {[timestamp |-> t] : t \in TimestampTexts}

Descriptions == {"", "Beach"}

\* optional top-level members: a dictionary with zero or one key
TimeMembers == {EmptyDict} \cup {[photoTakenTime |-> v] : v \in PhotoTakenTimes}

ExifMembers == {EmptyDict} \cup {[geoDataExif |-> v] : v \in GeoFields}

GeoMembers == {EmptyDict} \cup {[geoData |-> v] : v \in GeoFields}

DescriptionMembers == {EmptyDict} \cup {[description |-> s] : s \in Descriptions}

\* the top-level object with the given members
JsonData(t, e, g, d) == t @@ e @@ g @@ d

\* the content of a sidecar file: text json.load rejects, or a document
Malformed == [ok |-> FALSE]

Document(data) == [ok |-> TRUE, data |-> data]

(***************************************************************************)
(* int(text): decimal digits with an optional sign; ValueError otherwise.  *)
(***************************************************************************)
Digits == <<"0", "1", "2", "3", "4", "5", "6", "7", "8", "9">>

IsDigit(c) == \E k \in 1..10 : Digits[k] = c

DigitVal(c) == (CHOOSE k \in 1..10 : Digits[k] = c) - 1

RECURSIVE DigitsToInt(_)
DigitsToInt(s) ==
    IF Len(s) = 0 THEN 0
    ELSE 10 * DigitsToInt(SubSeq(s, 1, Len(s) - 1)) + DigitVal(s[Len(s)])

IsIntText(s) ==
    LET body == IF Len(s) > 0 /\ s[1] \in {"-", "+"} THEN Tail(s) ELSE s
    IN  Len(body) > 0 /\ \A k \in 1..Len(body) : IsDigit(body[k])

int(s) ==
    IF s[1] = "-" THEN 0 - DigitsToInt(Tail(s))
    ELSE IF s[1] = "+" THEN DigitsToInt(Tail(s))
    ELSE DigitsToInt(s)

(***************************************************************************)
(* datetime.fromtimestamp(t).strftime("%Y:%m:%d %H:%M:%S") in a local zone *)
(* utc_offset seconds east of UTC.  The string is modelled by its six      *)
(* numeric fields.                                                         *)
(***************************************************************************)
civil_from_days(days) ==
    LET z    == days + 719468
        era  == z \div 146097
        doe  == z - era * 146097
        yoe  == (doe - (doe \div 1460) + (doe \div 36524) - (doe \div 146096)) \div 365
        doy  == doe - (365 * yoe + (yoe \div 4) - (yoe \div 100))
        mp   == (5 * doy + 2) \div 153
        d    == doy - ((153 * mp + 2) \div 5) + 1
        m    == IF mp < 10 THEN mp + 3 ELSE mp - 9
        y    == yoe + era * 400 + (IF m <= 2 THEN 1 ELSE 0)
    IN  <<y, m, d>>

timestamp_to_exif_format(timestamp, offset) ==
    LET local == int(timestamp) + offset
        date  == civil_from_days(local \div 86400)
        secs  == local % 86400
    IN  <<date[1], date[2], date[3], secs \div 3600, (secs % 3600) \div 60, secs % 60>>

(***************************************************************************)
(* extract_metadata: returns [metadata, error]; error is TRUE when the     *)
(* except branch ran (an entry is appended to stats["errors"]).            *)
(***************************************************************************)
\* Python truthiness of a geo field value (None when the key is absent)
Truthy(v) ==
    /\ v # JsonNull
    /\ v.type = "object" => DOMAIN v.members # {}

\* data.get("geoDataExif") or data.get("geoData")
gps_source_of(data) ==
    LET exif == Get(data, "geoDataExif", JsonNull)
    IN  IF Truthy(exif) THEN exif ELSE Get(data, "geoData", JsonNull)

extract_timestamp(data, offset, metadata) ==
    IF "photoTakenTime" \in DOMAIN data /\ "timestamp" \in DOMAIN data["photoTakenTime"]
    THEN LET timestamp == data["photoTakenTime"]["timestamp"]
         IN  Put(Put(metadata, "datetime", timestamp_to_exif_format(timestamp, offset)),
                 "timestamp", int(timestamp))
    ELSE metadata

\* variant: GPS kept when either coordinate is non-zero
extract_gps_either(data, metadata) ==
    LET gps_source == gps_source_of(data)
    IN  IF Truthy(gps_source)
        THEN LET lat == Get(gps_source.members, "latitude", 0)
                 lon == Get(gps_source.members, "longitude", 0)
                 alt == Get(gps_source.members, "altitude", 0)
             IN  IF lat # 0 \/ lon # 0
                 THEN LET m2 == Put(Put(metadata, "latitude", lat), "longitude", lon)
                      IN  IF alt # 0 THEN Put(m2, "altitude", alt) ELSE m2
                 ELSE metadata
        ELSE metadata

extract_gps(data, metadata) ==
    LET gps_source == gps_source_of(data)
    IN  IF Truthy(gps_source)
        THEN LET lat == Get(gps_source.members, "latitude", 0)
                 lon == Get(gps_source.members, "longitude", 0)
                 alt == Get(gps_source.members, "altitude", 0)
             IN  IF lat # 0 /\ lon # 0
                 THEN LET m2 == Put(Put(metadata, "latitude", lat), "longitude", lon)
                      IN  IF alt # 0 THEN Put(m2, "altitude", alt) ELSE m2
                 ELSE metadata
        ELSE metadata

extract_description(data, metadata) ==
    IF "description" \in DOMAIN data /\ data["description"] # ""
    THEN Put(metadata, "description", data["description"])
    ELSE metadata

\* the statements of the try block that raise on the modelled documents
Raises(content) ==
    \/ ~content.ok
    \/ /\ "photoTakenTime" \in DOMAIN content.data
       /\ "timestamp" \in DOMAIN content.data["photoTakenTime"]
       /\ ~IsIntText(content.data["photoTakenTime"]["timestamp"])

extract_metadata(content, offset) ==
    IF Raises(content)
    THEN [metadata |-> EmptyDict, error |-> TRUE]
    ELSE [metadata |->
            extract_description(content.data,
              extract_gps(content.data,
                extract_timestamp(content.data, offset, EmptyDict))),
          error |-> FALSE]

(***************************************************************************)
(* build_exiftool_command: the argument list.                              *)
(***************************************************************************)
Opt(text) == [kind |-> "opt", text |-> text]

Tag(name, value) == [kind |-> "tag", name |-> name, value |-> value]

PathArg(media_file) == [kind |-> "path", path |-> media_file]

abs(n) == IF n >= 0 THEN n ELSE 0 - n

\* variant: the photo tags for every kind of file
date_tags_photo_only(metadata, is_video) ==
    IF "datetime" \in DOMAIN metadata
    THEN LET dt == metadata["datetime"]
         IN  << Tag("DateTimeOriginal", dt), Tag("CreateDate", dt), Tag("ModifyDate", dt) >>
    ELSE << >>

date_tags(metadata, is_video) ==
    IF "datetime" \in DOMAIN metadata
    THEN LET dt == metadata["datetime"]
         IN  IF is_video
             THEN << Tag("CreateDate", dt), Tag("ModifyDate", dt),
                     Tag("TrackCreateDate", dt), Tag("TrackModifyDate", dt),
                     Tag("MediaCreateDate", dt), Tag("MediaModifyDate", dt) >>
             ELSE << Tag("DateTimeOriginal", dt), Tag("CreateDate", dt),
                     Tag("ModifyDate", dt) >>
    ELSE << >>

altitude_tags(metadata) ==
    IF "altitude" \in DOMAIN metadata
    THEN LET alt == metadata["altitude"]
             alt_ref == IF alt >= 0 THEN "0" ELSE "1"
         IN  << Tag("GPSAltitude", abs(alt)), Tag("GPSAltitudeRef", alt_ref) >>
    ELSE << >>

gps_tags(metadata) ==
    IF "latitude" \in DOMAIN metadata /\ "longitude" \in DOMAIN metadata
    THEN LET lat == metadata["latitude"]
             lon == metadata["longitude"]
             lat_ref == IF lat >= 0 THEN "N" ELSE "S"
             lon_ref == IF lon >= 0 THEN "E" ELSE "W"
         IN  << Tag("GPSLatitude", abs(lat)), Tag("GPSLatitudeRef", lat_ref),
                Tag("GPSLongitude", abs(lon)), Tag("GPSLongitudeRef", lon_ref) >>
             \o altitude_tags(metadata)
    ELSE << >>

description_tags(metadata) ==
    IF "description" \in DOMAIN metadata
    THEN << Tag("ImageDescription", metadata["description"]) >>
    ELSE << >>

build_exiftool_command(exiftool_path, media_file, metadata, is_video) ==
    << Opt(exiftool_path), Opt("-overwrite_original") >>
    \o date_tags(metadata, is_video)
    \o gps_tags(metadata)
    \o description_tags(metadata)
    \o << PathArg(media_file) >>

\* media_file.suffix.lower() in {".mp4", ".mov"}
is_video_file(ext) == lower(ext) \in {".mp4", ".mov"}

(***************************************************************************)
(* State                                                                   *)
(***************************************************************************)
VARIABLES
    pc,            \* position of main(): preflight, discover, process, verify, exit, done
    dry_run,       \* args.dry_run
    skip_no_json,  \* args.skip_no_json
    utc_offset,    \* the host's local time zone, seconds east of UTC
    source_exists, \* source_dir.exists()
    srcTree,       \* files under the source root: path -> (sidecar pattern -> content)
    output,        \* the output root: exists, files, tags written, mtimes set
    toolCalls,     \* the exiftool write commands run so far, in order
    media_files,   \* main's media_files list
    i,             \* number of loop iterations of main completed
    stats,         \* the global stats dictionary
    trace,         \* one entry per process_file call, in call order
    verified,      \* what the VERIFICATION block did
    exit_tier,     \* branch of main that called sys.exit, "running" before that
    f_pc,          \* FuncSpec: input, extracted, built
    f_content,     \* FuncSpec: the sidecar content given to extract_metadata
    f_is_video,    \* FuncSpec: the is_video argument
    f_extracted,   \* FuncSpec: result of extract_metadata
    f_cmd          \* FuncSpec: result of build_exiftool_command

runVars == <<pc, dry_run, skip_no_json, source_exists, srcTree, output, toolCalls,
             media_files, i, stats, trace, verified, exit_tier>>

funcVars == <<f_pc, f_content, f_is_video, f_extracted, f_cmd>>

vars == <<runVars, funcVars, utc_offset>>

TzOffsets == {0, -28800}

ExiftoolPath == "/usr/bin/exiftool"

(***************************************************************************)
(* Source trees of Spec.  Every media path is absent or present with one   *)
(* of the sidecar sets below; other paths are absent or present.           *)
(***************************************************************************)
FullDoc == Document([photoTakenTime |-> [timestamp |-> <<"1", "6", "0", "9", "4", "5", "9", "2", "0", "0">>],
                     geoDataExif |-> JsonObject([latitude |-> 1, longitude |-> -1, altitude |-> 0]),
                     geoData |-> JsonObject([latitude |-> -1, longitude |-> 1, altitude |-> 1]),
                     description |-> "Beach"])

GpsDoc == Document([geoData |-> JsonObject([latitude |-> -1, longitude |-> 1, altitude |-> -1])])

ZeroDoc == Document([geoData |-> JsonObject([latitude |-> 0, longitude |-> 0])])

DescDoc == Document([description |-> "Beach"])

TimeDoc == Document([photoTakenTime |-> [timestamp |-> <<"8", "6", "3", "9", "9">>]])

SidecarSets ==
    { EmptyDict,
      (JSON_PATTERNS[1] :> FullDoc),
      (JSON_PATTERNS[2] :> Malformed) @@ (JSON_PATTERNS[3] :> GpsDoc),
      (JSON_PATTERNS[3] :> ZeroDoc),
      (JSON_PATTERNS[1] :> DescDoc) @@ (JSON_PATTERNS[2] :> GpsDoc),
      (JSON_PATTERNS[2] :> TimeDoc) }

IsMediaPath(p) == lower(suffix(p)) \in MEDIA_EXTENSIONS

SourceTrees ==
    UNION { { [p \in present |-> IF IsMediaPath(p) THEN sc[p] ELSE EmptyDict]
              : sc \in [present -> SidecarSets] }
            : present \in SUBSET Paths }

InitStats == [total_files |-> 0, processed |-> 0, with_json |-> 0, without_json |-> 0,
              metadata_success |-> 0, metadata_failed |-> 0, gps_applied |-> 0,
              errors |-> << >>]

InitOutput == [exists |-> FALSE, files |-> {}, tags |-> EmptyDict, mtime |-> EmptyDict]

NotVerified == [ran |-> FALSE, success |-> FALSE, missing |-> {}, sample |-> {}]

FuncIdle ==
    /\ f_pc = "idle"
    /\ f_content = Malformed
    /\ f_is_video = FALSE
    /\ f_extracted = [metadata |-> EmptyDict, error |-> FALSE]
    /\ f_cmd = << >>

Init ==
    /\ pc = "preflight"
    /\ dry_run \in BOOLEAN
    /\ skip_no_json \in BOOLEAN
    /\ utc_offset \in TzOffsets
    /\ source_exists \in BOOLEAN
    /\ srcTree \in (IF source_exists THEN SourceTrees ELSE {EmptyDict})
    /\ output \in {InitOutput, [InitOutput EXCEPT !.exists = TRUE]}
    /\ toolCalls = << >>
    /\ media_files = << >>
    /\ i = 0
    /\ stats = InitStats
    /\ trace = << >>
    /\ verified = NotVerified
    /\ exit_tier = "running"
    /\ FuncIdle

(***************************************************************************)
(* find_json_for_media: the first pattern, in list order, whose file       *)
(* exists next to the media file.                                          *)
(***************************************************************************)
RECURSIVE first_existing(_, _)
first_existing(sidecars, k) ==
    IF k > Len(JSON_PATTERNS) THEN None
    ELSE IF JSON_PATTERNS[k] \in DOMAIN sidecars THEN JSON_PATTERNS[k]
    ELSE first_existing(sidecars, k + 1)

\* variant: the last existing pattern wins
find_json_for_media_last(tree, media_file) ==
    LET existing == {k \in 1..Len(JSON_PATTERNS) : JSON_PATTERNS[k] \in DOMAIN tree[media_file]}
    IN  IF existing = {} THEN None
        ELSE JSON_PATTERNS[CHOOSE k \in existing : \A j \in existing : j <= k]

find_json_for_media(tree, media_file) == first_existing(tree[media_file], 1)

(***************************************************************************)
(* discover_media_files: rglob order is arbitrary, the result is sorted.   *)
(* (No path with a media extension is named metadata.json.)                *)
(***************************************************************************)
RECURSIVE sorted(_)
sorted(S) ==
    IF S = {} THEN << >>
    ELSE LET least == CHOOSE x \in S : \A y \in S : x <= y
         IN  <<least>> \o sorted(S \ {least})

RECURSIVE descending(_)
descending(S) ==
    IF S = {} THEN << >>
    ELSE LET greatest == CHOOSE x \in S : \A y \in S : y <= x
         IN  <<greatest>> \o descending(S \ {greatest})

\* variant: the list is returned in directory order, not sorted
discover_media_files_unsorted(files) ==
    descending({p \in files : lower(suffix(p)) \in MEDIA_EXTENSIONS})

discover_media_files(files) == sorted({p \in files : lower(suffix(p)) \in MEDIA_EXTENSIONS})

(***************************************************************************)
(* apply_metadata.  tool is the behaviour of the exiftool subprocess and   *)
(* utime_ok that of os.utime.                                              *)
(***************************************************************************)
ToolResults == {"ok", "nonzero", "timeout"}

Error(kind, file) == [kind |-> kind, file |-> file]

OutputFile(rel_path) == [root |-> "output", rel |-> rel_path]

\* variant: a non-zero exit is not recorded in the error log
run_exiftool_silent(cmd, rel_path, metadata, tool, utime_ok) ==
    LET base == [cmd |-> cmd, success |-> TRUE, invoked |-> TRUE, tagged |-> FALSE,
                 utime |-> FALSE, errors |-> << >>, tool |-> tool]
    IN  IF tool = "nonzero"
        THEN [base EXCEPT !.success = FALSE]
        ELSE IF tool = "timeout"
        THEN [base EXCEPT !.success = FALSE,
                          !.errors = << Error("Failed to apply metadata", rel_path) >>]
        ELSE IF "timestamp" \in DOMAIN metadata
        THEN IF utime_ok
             THEN [base EXCEPT !.tagged = TRUE, !.utime = TRUE]
             ELSE [base EXCEPT !.success = FALSE, !.tagged = TRUE, !.tool = "utime_error",
                               !.errors = << Error("Failed to apply metadata", rel_path) >>]
        ELSE [base EXCEPT !.tagged = TRUE]

\* the try block of apply_metadata: subprocess.run, then os.utime
run_exiftool(cmd, rel_path, metadata, tool, utime_ok) ==
    LET base == [cmd |-> cmd, success |-> TRUE, invoked |-> TRUE, tagged |-> FALSE,
                 utime |-> FALSE, errors |-> << >>, tool |-> tool]
    IN  IF tool = "nonzero"
        THEN [base EXCEPT !.success = FALSE,
                          !.errors = << Error("exiftool failed", rel_path) >>]
        ELSE IF tool = "timeout"
        THEN [base EXCEPT !.success = FALSE,
                          !.errors = << Error("Failed to apply metadata", rel_path) >>]
        ELSE IF "timestamp" \in DOMAIN metadata
        THEN IF utime_ok
             THEN [base EXCEPT !.tagged = TRUE, !.utime = TRUE]
             ELSE [base EXCEPT !.success = FALSE, !.tagged = TRUE, !.tool = "utime_error",
                               !.errors = << Error("Failed to apply metadata", rel_path) >>]
        ELSE [base EXCEPT !.tagged = TRUE]

\* variant: the dry_run test is missing
apply_metadata_always(rel_path, metadata, dry, tool, utime_ok) ==
    run_exiftool(build_exiftool_command(ExiftoolPath, OutputFile(rel_path), metadata,
                                        is_video_file(suffix(rel_path))),
                 rel_path, metadata, tool, utime_ok)

apply_metadata(rel_path, metadata, dry, tool, utime_ok) ==
    LET cmd == build_exiftool_command(ExiftoolPath, OutputFile(rel_path), metadata,
                                      is_video_file(suffix(rel_path)))
    IN  IF dry
        THEN [cmd |-> cmd, success |-> TRUE, invoked |-> FALSE, tagged |-> FALSE,
              utime |-> FALSE, errors |-> << >>, tool |-> "dry_run"]
        ELSE run_exiftool(cmd, rel_path, metadata, tool, utime_ok)

(***************************************************************************)
(* process_file, as a function from the state before the call and the      *)
(* behaviour of the environment to the state after it.                     *)
(***************************************************************************)
\* variant: files without a sidecar are skipped whatever the option
skips_always(json_file, skip) == json_file = None

\* the early return of process_file for a file without a sidecar
skips(json_file, skip) == json_file = None /\ skip

Entry(file, json_file, metadata) ==
    [file |-> file, json_file |-> json_file, metadata |-> metadata, cmd |-> << >>,
     copied |-> FALSE, tool |-> "not_run", returned |-> TRUE]

Written(out, rel_path, a, metadata) ==
    [out EXCEPT !.tags  = IF a.tagged THEN Put(@, rel_path, a.cmd) ELSE @,
                !.mtime = IF a.utime THEN Put(@, rel_path, metadata["timestamp"]) ELSE @]

process_file(st, out, calls, tree, source_file, dry, skip, offset, copy_ok, tool, utime_ok) ==
    LET json_file == find_json_for_media(tree, source_file)
        extracted == IF json_file # None
                     THEN extract_metadata(tree[source_file][json_file], offset)
                     ELSE [metadata |-> EmptyDict, error |-> FALSE]
        metadata  == extracted.metadata
        st1 == IF json_file # None
               THEN [st EXCEPT !.with_json = @ + 1,
                               !.errors = IF extracted.error
                                          THEN Append(@, Error("Failed to parse", source_file))
                                          ELSE @]
               ELSE [st EXCEPT !.without_json = @ + 1]
        entry == Entry(source_file, json_file, metadata)
        out1  == IF dry THEN out ELSE [out EXCEPT !.exists = TRUE]
        a     == apply_metadata(source_file, metadata, dry, tool, utime_ok)
    IN  IF skips(json_file, skip)
        THEN [stats |-> st1, output |-> out, toolCalls |-> calls, entry |-> entry]
        ELSE IF ~dry /\ ~copy_ok
        THEN [stats |-> [st1 EXCEPT !.errors = Append(@, Error("Failed to copy", source_file))],
              output |-> out1, toolCalls |-> calls,
              entry |-> [entry EXCEPT !.returned = FALSE]]
        ELSE LET out2   == IF dry THEN out1 ELSE [out1 EXCEPT !.files = @ \cup {source_file}]
                 entry2 == [entry EXCEPT !.copied = ~dry]
             IN  IF DOMAIN metadata = {}
                 THEN [stats |-> [st1 EXCEPT !.processed = @ + 1],
                       output |-> out2, toolCalls |-> calls, entry |-> entry2]
                 ELSE LET calls2 == IF a.invoked THEN Append(calls, a.cmd) ELSE calls
                          out3   == Written(out2, source_file, a, metadata)
                          entry3 == [entry2 EXCEPT !.cmd = a.cmd, !.tool = a.tool,
                                                   !.returned = a.success]
                          st2    == [st1 EXCEPT !.errors = @ \o a.errors]
                      IN  IF a.success
                          THEN [stats |-> [st2 EXCEPT
                                   !.metadata_success = @ + 1,
                                   !.gps_applied = IF "latitude" \in DOMAIN metadata
                                                   THEN @ + 1 ELSE @,
                                   !.processed = @ + 1],
                                output |-> out3, toolCalls |-> calls2, entry |-> entry3]
                          ELSE [stats |-> [st2 EXCEPT !.metadata_failed = @ + 1],
                                output |-> out3, toolCalls |-> calls2, entry |-> entry3]

(***************************************************************************)
(* verify_output                                                           *)
(***************************************************************************)
Range(seq) == {seq[k] : k \in 1..Len(seq)}

verify_output(tree, out) ==
    IF ~out.exists
    THEN [success |-> FALSE, missing |-> {}]
    ELSE LET source_files == Range(discover_media_files(DOMAIN tree))
             output_files == Range(discover_media_files(out.files))
             missing      == source_files \ output_files
         IN  [success |-> missing = {}, missing |-> missing]

\* random.sample(output_files, min(sample_count, len(output_files)))
SampleCount == 5

Samples(out) ==
    LET output_files == Range(discover_media_files(out.files))
        sample_size  == IF Cardinality(output_files) < SampleCount
                        THEN Cardinality(output_files) ELSE SampleCount
    IN  {S \in SUBSET output_files : Cardinality(S) = sample_size}

(***************************************************************************)
(* The final if/elif/else of main.                                         *)
(***************************************************************************)
exit_tier_of(st) ==
    IF Len(st.errors) > 0 /\ st.processed < st.total_files THEN "failed"
    ELSE IF Len(st.errors) > 0 THEN "completed_with_errors"
    ELSE "success"

exit_code_of(tier) == IF tier \in {"failed", "preflight_error"} THEN 1 ELSE 0

(***************************************************************************)
(* Actions of main                                                         *)
(***************************************************************************)
\* exiftool lookup, source directory check and disk space check
Preflight ==
    /\ pc = "preflight"
    /\ \E exiftool_found \in BOOLEAN, skip_disk_check \in BOOLEAN, disk_ok \in BOOLEAN :
          IF \/ ~exiftool_found
             \/ ~source_exists
             \/ (~dry_run /\ ~skip_disk_check /\ ~disk_ok)
          THEN pc' = "done" /\ exit_tier' = "preflight_error"
          ELSE pc' = "discover" /\ exit_tier' = exit_tier
    /\ UNCHANGED <<dry_run, skip_no_json, source_exists, srcTree, output, toolCalls,
                   media_files, i, stats, trace, verified, utc_offset, funcVars>>

Discover ==
    /\ pc = "discover"
    /\ media_files' = discover_media_files(DOMAIN srcTree)
    /\ stats' = [stats EXCEPT !.total_files = Len(media_files')]
    /\ pc' = "process"
    /\ UNCHANGED <<dry_run, skip_no_json, source_exists, srcTree, output, toolCalls,
                   i, trace, verified, exit_tier, utc_offset, funcVars>>

\* one iteration of the for loop
ProcessFile ==
    /\ pc = "process"
    /\ i < Len(media_files)
    /\ \E copy_ok \in BOOLEAN, tool \in ToolResults, utime_ok \in BOOLEAN :
          LET r == process_file(stats, output, toolCalls, srcTree, media_files[i + 1],
                                dry_run, skip_no_json, utc_offset, copy_ok, tool, utime_ok)
          IN  /\ stats' = r.stats
              /\ output' = r.output
              /\ toolCalls' = r.toolCalls
              /\ trace' = Append(trace, r.entry)
    /\ i' = i + 1
    /\ UNCHANGED <<pc, dry_run, skip_no_json, source_exists, srcTree, media_files,
                   verified, exit_tier, utc_offset, funcVars>>

LoopDone ==
    /\ pc = "process"
    /\ i = Len(media_files)
    /\ pc' = IF dry_run THEN "exit" ELSE "verify"
    /\ UNCHANGED <<dry_run, skip_no_json, source_exists, srcTree, output, toolCalls,
                   media_files, i, stats, trace, verified, exit_tier, utc_offset, funcVars>>

\* the VERIFICATION block
Verification ==
    /\ pc = "verify"
    /\ LET v == verify_output(srcTree, output)
       IN  \E sample \in (IF stats.with_json > 0 THEN Samples(output) ELSE {{}}) :
              verified' = [ran |-> TRUE, success |-> v.success, missing |-> v.missing,
                           sample |-> sample]
    /\ pc' = "exit"
    /\ UNCHANGED <<dry_run, skip_no_json, source_exists, srcTree, output, toolCalls,
                   media_files, i, stats, trace, exit_tier, utc_offset, funcVars>>

\* print_summary and sys.exit
Exit ==
    /\ pc = "exit"
    /\ exit_tier' = exit_tier_of(stats)
    /\ pc' = "done"
    /\ UNCHANGED <<dry_run, skip_no_json, source_exists, srcTree, output, toolCalls,
                   media_files, i, stats, trace, verified, utc_offset, funcVars>>

Next == Preflight \/ Discover \/ ProcessFile \/ LoopDone \/ Verification \/ Exit

Spec == Init /\ [][Next]_vars

(***************************************************************************)
(* FuncSpec: extract_metadata and build_exiftool_command on one sidecar.   *)
(***************************************************************************)
RunIdle ==
    /\ pc = "idle"
    /\ dry_run = FALSE
    /\ skip_no_json = FALSE
    /\ source_exists = FALSE
    /\ srcTree = EmptyDict
    /\ output = InitOutput
    /\ toolCalls = << >>
    /\ media_files = << >>
    /\ i = 0
    /\ stats = InitStats
    /\ trace = << >>
    /\ verified = NotVerified
    /\ exit_tier = "running"

FuncInit ==
    /\ RunIdle
    /\ utc_offset \in TzOffsets
    /\ f_pc = "input"
    /\ \/ f_content = Malformed
       \/ \E t \in TimeMembers, e \in ExifMembers, g \in GeoMembers, d \in DescriptionMembers :
             f_content = Document(JsonData(t, e, g, d))
    /\ f_is_video \in BOOLEAN
    /\ f_extracted = [metadata |-> EmptyDict, error |-> FALSE]
    /\ f_cmd = << >>

Extract ==
    /\ f_pc = "input"
    /\ f_extracted' = extract_metadata(f_content, utc_offset)
    /\ f_pc' = "extracted"
    /\ UNCHANGED <<runVars, utc_offset, f_content, f_is_video, f_cmd>>

Build ==
    /\ f_pc = "extracted"
    /\ f_cmd' = build_exiftool_command(ExiftoolPath, OutputFile(1), f_extracted.metadata,
                                       f_is_video)
    /\ f_pc' = "built"
    /\ UNCHANGED <<runVars, utc_offset, f_content, f_is_video, f_extracted>>

FuncNext == Extract \/ Build

FuncSpec == FuncInit /\ [][FuncNext]_vars

(***************************************************************************)
(* Properties                                                              *)
(***************************************************************************)
\* main reached its final sys.exit after the loop
Finished == pc = "done" /\ exit_tier # "preflight_error"

Entries == Range(trace)

\* the copy of the entry's file raised
CopyFailed(e) == ~dry_run /\ ~e.copied /\ ~e.returned

\* the entry's file was skipped because of --skip-no-json
Skipped(e) == e.json_file = None /\ skip_no_json

ToolFailed(e) == e.tool \in {"nonzero", "timeout"}

ErrorKinds == {stats.errors[k].kind : k \in 1..Len(stats.errors)}

\* C1: an apply-mode run over N files that all have a sidecar with non-empty
\* metadata and all copy, in which the tool fails (non-zero exit or timeout)
\* for exactly one file and succeeds for the others, ends with
\* metadata_success = N-1, metadata_failed = 1, processed = N and in the
\* degraded tier (exit 0).
C1_OneToolFailureIsDegraded ==
    ( /\ Finished
      /\ ~dry_run
      /\ \A e \in Entries : e.json_file # None /\ DOMAIN e.metadata # {} /\ e.copied
      /\ Cardinality({k \in 1..Len(trace) : ToolFailed(trace[k])}) = 1
      /\ \A e \in Entries : ~ToolFailed(e) => e.tool = "ok" )
    => /\ stats.metadata_success = Len(media_files) - 1
       /\ stats.metadata_failed = 1
       /\ stats.processed = Len(media_files)
       /\ exit_tier = "completed_with_errors"
       /\ exit_code_of(exit_tier) = 0

\* C2: at the end of a run, for every combination of flags and outcomes, the
\* tier is: failure if processed < total_files; degraded if every file was
\* processed and the error log is non-empty; full success only if every file
\* was processed and no error was recorded.
C2_TierFromCounters ==
    Finished =>
        exit_tier = IF stats.processed < stats.total_files THEN "failed"
                    ELSE IF Len(stats.errors) > 0 THEN "completed_with_errors"
                    ELSE "success"

\* C3 as stated: after an apply-mode run in which no copy fails, whatever the
\* other options, the missing set of verify_output is empty and it succeeds.
C3_CompleteWhateverOptions ==
    (verified.ran /\ \A e \in Entries : ~CopyFailed(e))
    => /\ verified.missing = {}
       /\ verified.success
       /\ \A p \in Range(media_files) : p \in output.files

\* C3 (amended): after an apply-mode run in which no copy fails and no file
\* is skipped by --skip-no-json, every discovered media file is present at
\* the same relative path in the output and the missing set is empty;
\* verify_output succeeds exactly when the output root exists, which is so
\* whenever at least one file was discovered.
C3_CompleteWhenNothingSkipped ==
    (verified.ran /\ \A e \in Entries : ~CopyFailed(e) /\ ~Skipped(e))
    => /\ verified.missing = {}
       /\ \A p \in Range(media_files) : p \in output.files
       /\ verified.success <=> output.exists
       /\ Len(media_files) > 0 => verified.success

C3_Witness ==
    /\ verified.ran
    /\ \A e \in Entries : ~CopyFailed(e) /\ ~Skipped(e)
    /\ Len(trace) >= 2
    /\ \E e \in Entries : ToolFailed(e)
    /\ \E e \in Entries : e.json_file = None
    /\ verified.success

\* the GPS keys of an extracted metadata dictionary
GpsPart(metadata) == [k \in DOMAIN metadata \cap GeoKeys |-> metadata[k]]

\* what one geo block alone yields under the zero-as-absent rule
GpsOfBlock(block) ==
    IF /\ "latitude" \in DOMAIN block /\ block["latitude"] # 0
       /\ "longitude" \in DOMAIN block /\ block["longitude"] # 0
    THEN [k \in {x \in DOMAIN block : x # "altitude" \/ block[x] # 0} |-> block[k]]
    ELSE EmptyDict

TagNames(cmd) == {cmd[k].name : k \in {j \in 1..Len(cmd) : cmd[j].kind = "tag"}}

GpsTagNames == {"GPSLatitude", "GPSLatitudeRef", "GPSLongitude", "GPSLongitudeRef",
                "GPSAltitude", "GPSAltitudeRef"}

TagValue(cmd, name) ==
    cmd[CHOOSE k \in 1..Len(cmd) : cmd[k].kind = "tag" /\ cmd[k].name = name].value

\* C4: whenever geoDataExif is present and not null (an empty object and
\* zero coordinates included), the GPS fields extracted and the GPS tags of
\* the command come from geoDataExif alone, never from geoData.
C4_ExifBlockOnly ==
    ( /\ f_pc \in {"extracted", "built"}
      /\ ~f_extracted.error
      /\ "geoDataExif" \in DOMAIN f_content.data
      /\ f_content.data["geoDataExif"] # JsonNull )
    => LET exif == f_content.data["geoDataExif"].members
       IN  /\ GpsPart(f_extracted.metadata) = GpsOfBlock(exif)
           /\ f_pc = "built" =>
                (TagNames(f_cmd) \cap GpsTagNames # {} <=> GpsOfBlock(exif) # EmptyDict)

\* C5: latitude is extracted iff longitude is; when the latitude or longitude
\* of the selected geo block is zero or missing, no latitude, longitude or
\* altitude is extracted and the command has no GPS tag; altitude is
\* extracted only with both coordinates and only when it is non-zero.
C5_ZeroAsAbsent ==
    (f_pc \in {"extracted", "built"}) =>
    LET m == f_extracted.metadata
        has(k) == k \in DOMAIN m
        selected == IF f_extracted.error THEN JsonNull ELSE gps_source_of(f_content.data)
        block == IF selected = JsonNull THEN EmptyDict ELSE selected.members
        zero(k) == k \notin DOMAIN block \/ block[k] = 0
    IN  /\ has("latitude") <=> has("longitude")
        /\ has("latitude") => m["latitude"] # 0 /\ m["longitude"] # 0
        /\ (zero("latitude") \/ zero("longitude")) =>
              ~has("latitude") /\ ~has("longitude") /\ ~has("altitude")
        /\ has("altitude") => has("latitude") /\ has("longitude") /\ m["altitude"] # 0
        /\ (has("latitude") /\ ~zero("altitude")) => has("altitude")
        /\ f_pc = "built" =>
              /\ ~has("latitude") => TagNames(f_cmd) \cap GpsTagNames = {}
              /\ ("GPSAltitude" \in TagNames(f_cmd)) <=> has("altitude")

C5_Witness ==
    /\ f_pc = "built"
    /\ ~f_extracted.error
    /\ LET selected == gps_source_of(f_content.data)
       IN  /\ selected # JsonNull
           /\ DOMAIN selected.members = GeoKeys
           /\ selected.members["latitude"] = 0
           /\ selected.members["longitude"] # 0
           /\ selected.members["altitude"] # 0
    /\ DOMAIN f_extracted.metadata \cap GeoKeys = {}
    /\ TagNames(f_cmd) \cap GpsTagNames = {}

VideoDateNames == << "CreateDate", "ModifyDate", "TrackCreateDate", "TrackModifyDate",
                     "MediaCreateDate", "MediaModifyDate" >>

PhotoDateNames == << "DateTimeOriginal", "CreateDate", "ModifyDate" >>

\* the tag names the claim prescribes for a metadata record, in order
ExpectedNames(m, video) ==
    (IF "datetime" \in DOMAIN m
     THEN (IF video THEN VideoDateNames ELSE PhotoDateNames) ELSE << >>)
    \o (IF "latitude" \in DOMAIN m
        THEN << "GPSLatitude", "GPSLatitudeRef", "GPSLongitude", "GPSLongitudeRef" >>
             \o (IF "altitude" \in DOMAIN m
                 THEN << "GPSAltitude", "GPSAltitudeRef" >> ELSE << >>)
        ELSE << >>)
    \o (IF "description" \in DOMAIN m THEN << "ImageDescription" >> ELSE << >>)

\* C9: the built command carries six date tags for a video and three for a
\* non-video file, all with the same formatted date; latitude and longitude
\* magnitudes with N/S and E/W by sign; altitude magnitude and reference
\* only when altitude is present; tags in the order dates, GPS, description;
\* the destination path last.
C9_TagPlanShape ==
    (f_pc = "built") =>
    LET m == f_extracted.metadata
        n == Len(f_cmd)
        tags == SubSeq(f_cmd, 3, n - 1)
        dates == {k \in 1..Len(tags) :
                    tags[k].name \in Range(VideoDateNames) \cup Range(PhotoDateNames)}
    IN  /\ n >= 3
        /\ f_cmd[1] = Opt(ExiftoolPath)
        /\ f_cmd[2] = Opt("-overwrite_original")
        /\ f_cmd[n] = PathArg(OutputFile(1))
        /\ \A k \in 1..Len(tags) : tags[k].kind = "tag"
        /\ [k \in 1..Len(tags) |-> tags[k].name] = ExpectedNames(m, f_is_video)
        /\ Cardinality(dates) = IF "datetime" \notin DOMAIN m THEN 0
                                ELSE IF f_is_video THEN 6 ELSE 3
        /\ \A k \in dates : tags[k].value = m["datetime"]
        /\ "latitude" \in DOMAIN m =>
              /\ TagValue(f_cmd, "GPSLatitude") = abs(m["latitude"])
              /\ TagValue(f_cmd, "GPSLatitudeRef") = (IF m["latitude"] > 0 THEN "N" ELSE "S")
              /\ TagValue(f_cmd, "GPSLongitude") = abs(m["longitude"])
              /\ TagValue(f_cmd, "GPSLongitudeRef") = (IF m["longitude"] > 0 THEN "E" ELSE "W")
        /\ "altitude" \in DOMAIN m =>
              /\ TagValue(f_cmd, "GPSAltitude") = abs(m["altitude"])
              /\ TagValue(f_cmd, "GPSAltitudeRef") = (IF m["altitude"] > 0 THEN "0" ELSE "1")
        /\ "description" \in DOMAIN m =>
              TagValue(f_cmd, "ImageDescription") = m["description"]

C9_Witness ==
    /\ f_pc = "built"
    /\ f_is_video
    /\ DOMAIN f_extracted.metadata =
          {"datetime", "timestamp", "latitude", "longitude", "altitude", "description"}
    /\ f_extracted.metadata["latitude"] < 0
    /\ f_extracted.metadata["longitude"] < 0
    /\ f_extracted.metadata["altitude"] < 0
    /\ Len(f_cmd) = 16

\* C6: in preview mode nothing is created, copied, tagged or re-timed, the
\* tool is never run and verification is skipped, so the output root stays
\* as it was; and the command built for a file in preview mode is the one
\* apply mode builds for the same file and metadata.
C6_PreviewMutatesNothing ==
    /\ [](dry_run =>
            /\ toolCalls = << >>
            /\ ~verified.ran
            /\ output.files = {} /\ output.tags = EmptyDict /\ output.mtime = EmptyDict
            /\ \A e \in Entries :
                  /\ ~e.copied
                  /\ e.tool \in {"not_run", "dry_run"}
                  /\ DOMAIN e.metadata # {} =>
                        e.cmd = apply_metadata(e.file, e.metadata, FALSE, "ok", TRUE).cmd)
    /\ [][dry_run => output' = output]_vars

C6_Witness ==
    /\ Finished
    /\ dry_run
    /\ ~output.exists
    /\ Len(trace) >= 2
    /\ \E e \in Entries : Len(e.cmd) > 3 /\ e.tool = "dry_run"
    /\ \E e \in Entries : e.json_file = None

\* C7: no per-file error stops the run: process_file is called exactly once
\* for every discovered media file, in sorted path order, and verification
\* runs only after the last file was processed, and only in apply mode.
C7_EveryFileOnceThenVerify ==
    /\ Len(trace) = i
    /\ i <= Len(media_files)
    /\ \A k \in 1..Len(trace) : trace[k].file = media_files[k]
    /\ \A k \in 1..(Len(media_files) - 1) : media_files[k] < media_files[k + 1]
    /\ pc \notin {"preflight", "discover"} /\ exit_tier # "preflight_error" =>
          Range(media_files) = {p \in DOMAIN srcTree : IsMediaPath(p)}
    /\ (pc \in {"verify", "exit"} \/ Finished) => Len(trace) = Len(media_files)
    /\ verified.ran => ~dry_run /\ Len(trace) = Len(media_files)
    /\ (Finished /\ ~dry_run) => verified.ran

C7_Witness ==
    /\ Finished
    /\ verified.ran
    /\ Len(trace) >= 2
    /\ {"Failed to parse", "Failed to copy"} \subseteq ErrorKinds
    /\ ErrorKinds \cap {"exiftool failed", "Failed to apply metadata"} # {}

PatternIndex(pattern) == CHOOSE k \in 1..Len(JSON_PATTERNS) : JSON_PATTERNS[k] = pattern

\* C8: the sidecar matched for a media file is the one of the earliest
\* pattern, in the fixed order, that exists next to it, also when several
\* exist; no sidecar (and no error for that) when none exists; the metadata
\* comes from that sidecar alone and the source tree is never changed.
C8_FirstMatchWins ==
    /\ [](\A e \in Entries :
            LET sidecars == srcTree[e.file]
            IN  /\ e.json_file = None <=> DOMAIN sidecars = {}
                /\ e.json_file # None =>
                      /\ e.json_file \in DOMAIN sidecars
                      /\ \A k \in 1..(PatternIndex(e.json_file) - 1) :
                            JSON_PATTERNS[k] \notin DOMAIN sidecars
                      /\ e.metadata = extract_metadata(sidecars[e.json_file], utc_offset).metadata
                /\ e.json_file = None =>
                      /\ e.metadata = EmptyDict
                      /\ \A k \in 1..Len(stats.errors) :
                            stats.errors[k].file = e.file =>
                                stats.errors[k].kind = "Failed to copy")
    /\ [][srcTree' = srcTree]_vars

C8_Witness ==
    \E e \in Entries :
        /\ DOMAIN srcTree[e.file] = {JSON_PATTERNS[2], JSON_PATTERNS[3]}
        /\ e.json_file = JSON_PATTERNS[2]
        /\ \E f \in Entries : f.json_file = None

IsPrefix(s, t) == Len(s) <= Len(t) /\ SubSeq(t, 1, Len(s)) = s

\* C10: after every prefix of the loop: with_json + without_json is the
\* number of files visited; metadata_success + metadata_failed <= with_json;
\* gps_applied <= metadata_success; processed <= visited <= total_files;
\* metadata_failed <= number of errors; the error log only grows; a file
\* without a sidecar changes none of metadata_success, metadata_failed and
\* gps_applied.
C10_CounterInvariant ==
    /\ [](pc \in {"process", "verify", "exit"} \/ Finished =>
            /\ stats.with_json + stats.without_json = i
            /\ stats.metadata_success + stats.metadata_failed <= stats.with_json
            /\ stats.gps_applied <= stats.metadata_success
            /\ stats.processed <= i
            /\ i <= stats.total_files
            /\ stats.metadata_failed <= Len(stats.errors))
    /\ [][/\ IsPrefix(stats.errors, stats'.errors)
          /\ (Len(trace') > Len(trace) /\ trace'[Len(trace')].json_file = None) =>
                /\ stats'.metadata_success = stats.metadata_success
                /\ stats'.metadata_failed = stats.metadata_failed
                /\ stats'.gps_applied = stats.gps_applied
                /\ stats'.without_json = stats.without_json + 1]_vars

C10_Witness ==
    /\ Finished
    /\ i >= 2
    /\ stats.without_json >= 1
    /\ stats.metadata_failed >= 1
    /\ Len(stats.errors) > stats.metadata_failed

====
